---- MODULE Spec2Model ----
(***************************************************************************)
(* Model of bokeh/sphinxext/bokeh_enum.py: the ``bokeh-enum`` directive.   *)
(*                                                                         *)
(* A text (a Python str) is a sequence of one-character strings.  The      *)
(* texts of the model hold letters, punctuation and the space; they hold   *)
(* no hyphen, tab or newline, so that textwrap's chunk splitting is the    *)
(* splitting into runs of whitespace and runs of non-whitespace in every   *)
(* Python version.  wrap and the operators under it follow                 *)
(* textwrap.TextWrapper of the standard library.                           *)
(*                                                                         *)
(* A Python value handed around by run() is a record [kind, val]:          *)
(*   kind "none": None;  kind "str": a text;  kind "list": a list of       *)
(*   texts.                                                                *)
(***************************************************************************)
EXTENDS Integers, Sequences, FiniteSets, TLC

VARIABLES
    pc,         \* position of the current invocation of run()
    arguments,  \* self.arguments
    options,    \* self.options: a function from option names to texts
    content,    \* self.content: the directive's body lines
    wrapper,    \* the module-level textwrap.TextWrapper
    name,       \* local: name
    module,     \* local: the imported module (a name of sys_modules) or None
    enum,       \* local: the looked-up attribute (its repr text) or None
    fullrepr,   \* local: fullrepr
    shortrepr,  \* local: shortrepr
    rendered,   \* the keyword arguments ENUM_DETAIL.render was called with
    rst_text,   \* local: the rendered text, as its lines
    result,     \* local: the ViewList handed to the parser
    returned,   \* what run() returned (node.children)
    raised,     \* the exception run() ended in
    steps,      \* history: the steps the current invocation has performed
    imports,    \* history: calls of importlib.import_module in this invocation
    earlier,    \* history: one earlier invocation, its inputs and template values
    sys_modules \* the importable modules, each a function from attribute names
                \* to objects

vars == <<pc, arguments, options, content, wrapper, name, module, enum, fullrepr,
          shortrepr, rendered, rst_text, result, returned, raised, steps, imports,
          earlier, sys_modules>>

(***************************************************************************)
(* Bounds of the model.                                                    *)
(***************************************************************************)
\* the longest representation of the wrapping family
MaxLen == 200
\* the most body lines a directive carries
MaxContent == 2

(***************************************************************************)
(* Program constants.                                                      *)
(***************************************************************************)
\* len(fullrepr) > 180
Threshold == 180
\* fullrepr[:40]
HeadLen == 40
\* fullrepr[-40:]
TailLen == 40
\* textwrap.TextWrapper's default width
DefaultWidth == 70

(***************************************************************************)
(* Python values.                                                          *)
(***************************************************************************)
None == [kind |-> "none", val |-> <<>>]
Str(t) == [kind |-> "str", val |-> t]
List(l) == [kind |-> "list", val |-> l]

Space == " "
IsSpace(c) == c = Space

\* s[:n] for n >= 0
Prefix(s, n) == SubSeq(s, 1, IF n < Len(s) THEN n ELSE Len(s))
\* s[n:] for n >= 0
Suffix(s, n) == SubSeq(s, (IF n < Len(s) THEN n ELSE Len(s)) + 1, Len(s))
\* s[-n:] for n > 0
Last(s, n) == SubSeq(s, (IF n < Len(s) THEN Len(s) - n ELSE 0) + 1, Len(s))

\* chunk.strip() == ''
IsBlank(chunk) == \A i \in 1..Len(chunk) : IsSpace(chunk[i])

RECURSIVE Join(_)
\* ''.join(chunks)
Join(chunks) == IF chunks = <<>> THEN <<>> ELSE Head(chunks) \o Join(Tail(chunks))

(***************************************************************************)
(* textwrap.TextWrapper, as configured at line 42: every option at its     *)
(* default but subsequent_indent.                                          *)
(***************************************************************************)
\* the wrapper without subsequent_indent
TextWrapper_no_indent ==
    [width |-> DefaultWidth,
     initial_indent |-> <<>>,
     subsequent_indent |-> <<>>,
     break_long_words |-> TRUE,
     drop_whitespace |-> TRUE]

TextWrapper ==
    [width |-> DefaultWidth,
     initial_indent |-> <<>>,
     subsequent_indent |-> <<Space, Space, Space, Space>>,
     break_long_words |-> TRUE,
     drop_whitespace |-> TRUE]

RECURSIVE ChunkStarts(_, _, _)
\* the positions lo..hi of the text where a chunk starts, in order: the first
\* position, and every position whose character is whitespace when the one before
\* is not, or the reverse
ChunkStarts(text, lo, hi) ==
    IF lo > hi THEN <<>>
    ELSE IF lo = hi
         THEN IF lo = 1 \/ (IsSpace(text[lo]) # IsSpace(text[lo - 1]))
              THEN <<lo>> ELSE <<>>
         ELSE LET mid == (lo + hi) \div 2
              IN  ChunkStarts(text, lo, mid) \o ChunkStarts(text, mid + 1, hi)

\* TextWrapper._split: the chunks of the text, runs of whitespace and words
split(text) ==
    LET starts == ChunkStarts(text, 1, Len(text))
    IN  [k \in 1..Len(starts) |->
            SubSeq(text, starts[k],
                   IF k < Len(starts) THEN starts[k + 1] - 1 ELSE Len(text))]

RECURSIVE Fitting(_, _, _, _)
\* how many of the first chunks fit a line of the width, k of them fitting already
Fitting(chunks, k, cur_len, width) ==
    IF k < Len(chunks) /\ cur_len + Len(chunks[k + 1]) <= width
    THEN Fitting(chunks, k + 1, cur_len + Len(chunks[k + 1]), width)
    ELSE k

\* the inner loop of _wrap_chunks: chunks are moved to the line while they fit
fill_line(chunks, width) ==
    LET k == Fitting(chunks, 0, 0, width)
        cur_line == SubSeq(chunks, 1, k)
    IN  [chunks |-> SubSeq(chunks, k + 1, Len(chunks)),
         cur_line |-> cur_line,
         cur_len |-> Len(Join(cur_line))]

\* TextWrapper._handle_long_word
handle_long_word(w, chunks, cur_line, cur_len, width) ==
    LET space_left == IF width < 1 THEN 1 ELSE width - cur_len
        chunk == Head(chunks)
    IN  IF w.break_long_words
        THEN [chunks |-> <<Suffix(chunk, space_left)>> \o Tail(chunks),
              cur_line |-> Append(cur_line, Prefix(chunk, space_left))]
        ELSE IF cur_line = <<>>
             THEN [chunks |-> Tail(chunks), cur_line |-> <<chunk>>]
             ELSE [chunks |-> chunks, cur_line |-> cur_line]

RECURSIVE wrap_chunks(_, _, _)
\* TextWrapper._wrap_chunks: one line per step of the outer loop
wrap_chunks(w, chunks, lines) ==
    IF chunks = <<>> THEN lines
    ELSE LET indent == IF lines # <<>> THEN w.subsequent_indent ELSE w.initial_indent
             width == w.width - Len(indent)
             kept == IF w.drop_whitespace /\ IsBlank(Head(chunks)) /\ lines # <<>>
                     THEN Tail(chunks) ELSE chunks
             filled == fill_line(kept, width)
             broken == IF filled.chunks # <<>> /\ Len(Head(filled.chunks)) > width
                       THEN handle_long_word(w, filled.chunks, filled.cur_line,
                                             filled.cur_len, width)
                       ELSE [chunks |-> filled.chunks, cur_line |-> filled.cur_line]
             cur_line == IF w.drop_whitespace /\ broken.cur_line # <<>>
                            /\ IsBlank(broken.cur_line[Len(broken.cur_line)])
                         THEN SubSeq(broken.cur_line, 1, Len(broken.cur_line) - 1)
                         ELSE broken.cur_line
         IN  wrap_chunks(w, broken.chunks,
                         IF cur_line # <<>>
                         THEN Append(lines, indent \o Join(cur_line))
                         ELSE lines)

\* TextWrapper.wrap
wrap(w, text) == wrap_chunks(w, split(text), <<>>)

(***************************************************************************)
(* The texts of the model.                                                 *)
(***************************************************************************)
Alphabet == <<"a", "b", "c", "d", "e", "f", "g">>
\* the letter at position i of a text: neighbours differ
Letter(i) == Alphabet[((i - 1) % Len(Alphabet)) + 1]

\* a text of n characters: after lead spaces, words of wl letters each followed
\* by gl spaces
Text(n, lead, wl, gl) ==
    [i \in 1..n |->
        IF i <= lead THEN Space
        ELSE IF ((i - lead - 1) % (wl + gl)) < wl THEN Letter(i) ELSE Space]

\* repr of an enumeration of k values of wl letters each:
\* Enumeration(v, v, ..., v), of 11 + k * (wl + 2) characters
EnumRepr(k, wl) ==
    <<"E", "n", "u", "m", "e", "r", "a", "t", "i", "o", "n", "(">>
    \o [i \in 1..(k * (wl + 2) - 2) |->
           LET r == (i - 1) % (wl + 2)
           IN  IF r < wl THEN Letter(i) ELSE IF r = wl THEN "," ELSE Space]
    \o <<")">>

(***************************************************************************)
(* The build environment: the modules importlib can import.  An object is  *)
(* known by the text its repr() gives.                                     *)
(***************************************************************************)
Object(text) == [kind |-> "object", val |-> text]

\* repr(None)
NoneRepr == <<"N", "o", "n", "e">>

\* repr(enum)
repr(obj) == IF obj = None THEN NoneRepr ELSE obj.val

Installed ==
    ("bokeh.enums" :>
        (   "baz"     :> Object(EnumRepr(3, 1))
         @@ "e180"    :> Object(EnumRepr(13, 11))
         @@ "e181"    :> Object(EnumRepr(10, 15))
         @@ "palette" :> Object(EnumRepr(21, 7))
         @@ "blank"   :> Object(Text(Threshold + 1, Threshold + 1, 1, 1))
         @@ "trail"   :> Object(Text(Threshold + 1, 0, 1, Threshold))
         @@ "solid"   :> Object(Text(Threshold + 10, 0, Threshold + 10, 1))))
    @@
    ("bokeh.sample" :>
        (   "baz"     :> Object(EnumRepr(2, 3))))

\* the first argument of a directive
Names == {"baz", "e180", "e181", "palette", "blank", "trail", "solid", "nope"}

\* the values of the 'module' option: two importable modules, one that is not,
\* and the empty text the 'unchanged' converter gives an option without a value
ModuleNames == {"bokeh.enums", "bokeh.sample", "no.such.module", ""}

\* self.options: option_spec admits 'module' and does not require it
OptionSets == {[o \in {"module"} |-> m] : m \in ModuleNames} \cup {[o \in {} |-> ""]}

\* body line i of a directive
BodyLine(i) == <<Letter(i), Letter(i + 1)>>
\* self.content: up to MaxContent lines
Contents == {[i \in 1..k |-> BodyLine(i)] : k \in 0..MaxContent}

\* importlib.import_module(m): how the call ends
import_module(mods, m) ==
    IF m = "" THEN "ValueError"
    ELSE IF m \in DOMAIN mods THEN "ok"
    ELSE "ImportError"

\* getattr(module, name, ''): another default
getattr_default_empty(mods, m, n) ==
    IF n \in DOMAIN mods[m] THEN mods[m][n] ELSE Object(<<"'", "'">>)

\* getattr(module, name, None)
getattr(mods, m, n) == IF n \in DOMAIN mods[m] THEN mods[m][n] ELSE None

(***************************************************************************)
(* The values a local holds before it is bound, and exceptions.            *)
(***************************************************************************)
Unbound == "<unbound>"
NotRendered ==
    [name |-> Unbound, module |-> Unbound, content |-> <<>>,
     shortrepr |-> None, fullrepr |-> None]
NoException == [class |-> "", message |-> <<>>]
NoEarlier == [arguments |-> <<>>, options |-> [o \in {} |-> ""], content |-> <<>>,
              enum |-> None, rendered |-> NotRendered]

\* a message is the sequence of its pieces, each a sequence of strings:
\* a piece of the format string
Literal(t) == <<t>>
\* %r of a name
NameRepr(n) == <<"'", n, "'">>

\* the message with the attribute name in the module's place
SphinxError_name_twice(arg, mod) ==
    [class |-> "SphinxError",
     message |-> <<Literal("Could not generate reference docs for "), NameRepr(arg),
                   Literal(": could not import module "), NameRepr(arg)>>]

\* SphinxError("Could not generate reference docs for %r: could not import module %r"
\*             % (self.arguments[0], self.options['module']))
SphinxError(arg, mod) ==
    [class |-> "SphinxError",
     message |-> <<Literal("Could not generate reference docs for "), NameRepr(arg),
                   Literal(": could not import module "), NameRepr(mod)>>]

\* the steps of run(), in the order of its text
AllSteps == <<"import", "getattr", "repr", "render", "parse">>

Init ==
    /\ pc = "idle"
    /\ arguments = <<>>
    /\ options = [o \in {} |-> ""]
    /\ content = <<>>
    /\ wrapper = TextWrapper
    /\ name = Unbound
    /\ module = Unbound
    /\ enum = None
    /\ fullrepr = None
    /\ shortrepr = None
    /\ rendered = NotRendered
    /\ rst_text = <<>>
    /\ result = <<>>
    /\ returned = None
    /\ raised = NoException
    /\ steps = <<>>
    /\ imports = 0
    /\ earlier = NoEarlier
    /\ sys_modules = Installed

\* The build tool meets a bokeh-enum directive: it constructs the directive with
\* one argument, the options given and the body, and calls run().
Invoke ==
    /\ pc = "idle"
    /\ \E a \in Names, o \in OptionSets, c \in Contents :
          /\ arguments' = <<a>>
          /\ options' = o
          /\ content' = c
    /\ pc' = "run"
    /\ name' = Unbound
    /\ module' = Unbound
    /\ enum' = None
    /\ fullrepr' = None
    /\ shortrepr' = None
    /\ rendered' = NotRendered
    /\ rst_text' = <<>>
    /\ result' = <<>>
    /\ returned' = None
    /\ raised' = NoException
    /\ steps' = <<>>
    /\ imports' = 0
    /\ UNCHANGED <<wrapper, earlier, sys_modules>>

\* lines 56-61: name = self.arguments[0]; the import, and its except clause
run_import ==
    /\ pc = "run"
    /\ name' = arguments[1]
    /\ steps' = Append(steps, "import")
    /\ IF "module" \notin DOMAIN options
       THEN \* self.options['module'] raises KeyError before the import is called
            /\ pc' = "raised"
            /\ raised' = [class |-> "KeyError", message |-> <<NameRepr("module")>>]
            /\ UNCHANGED <<module, imports>>
       ELSE /\ imports' = imports + 1
            /\ CASE import_module(sys_modules, options["module"]) = "ok" ->
                       /\ pc' = "imported"
                       /\ module' = options["module"]
                       /\ UNCHANGED raised
                 [] import_module(sys_modules, options["module"]) = "ImportError" ->
                       /\ pc' = "raised"
                       /\ raised' = SphinxError(arguments[1], options["module"])
                       /\ UNCHANGED module
                 [] OTHER ->
                       \* not an ImportError: the except clause does not catch it
                       /\ pc' = "raised"
                       /\ raised' = [class |-> "ValueError",
                                     message |-> <<Literal("Empty module name")>>]
                       /\ UNCHANGED module
    /\ UNCHANGED <<arguments, options, content, wrapper, enum, fullrepr, shortrepr,
                   rendered, rst_text, result, returned, earlier, sys_modules>>

\* line 63: enum = getattr(module, name, None)
run_getattr ==
    /\ pc = "imported"
    /\ enum' = getattr(sys_modules, module, name)
    /\ steps' = Append(steps, "getattr")
    /\ pc' = "looked_up"
    /\ UNCHANGED <<arguments, options, content, wrapper, name, module, fullrepr,
                   shortrepr, rendered, rst_text, result, returned, raised, imports,
                   earlier, sys_modules>>

\* fullrepr[:40] + " .... " + fullrepr[40:]: the tail cut from the wrong end
Abbreviate_wrong_tail(text) ==
    Prefix(text, HeadLen) \o <<Space, ".", ".", ".", ".", Space>> \o Suffix(text, TailLen)

\* fullrepr[:40] + " .... " + fullrepr[-40:]
Abbreviate(text) ==
    Prefix(text, HeadLen) \o <<Space, ".", ".", ".", ".", Space>> \o Last(text, TailLen)

\* the comparison with the threshold as >=
run_repr_ge ==
    /\ pc = "looked_up"
    /\ LET text == repr(enum)
       IN  IF Len(text) >= Threshold
           THEN /\ shortrepr' = Str(Abbreviate(text))
                /\ fullrepr' = List(wrap(wrapper, text))
           ELSE /\ shortrepr' = Str(text)
                /\ fullrepr' = None
    /\ steps' = Append(steps, "repr")
    /\ pc' = "computed"
    /\ UNCHANGED <<arguments, options, content, wrapper, name, module, enum, rendered,
                   rst_text, result, returned, raised, imports, earlier, sys_modules>>

\* the else branch without fullrepr = None
run_repr_keeps_full ==
    /\ pc = "looked_up"
    /\ LET text == repr(enum)
       IN  IF Len(text) > Threshold
           THEN /\ shortrepr' = Str(Abbreviate(text))
                /\ fullrepr' = List(wrap(wrapper, text))
           ELSE /\ shortrepr' = Str(text)
                /\ fullrepr' = Str(text)
    /\ steps' = Append(steps, "repr")
    /\ pc' = "computed"
    /\ UNCHANGED <<arguments, options, content, wrapper, name, module, enum, rendered,
                   rst_text, result, returned, raised, imports, earlier, sys_modules>>

\* the wrapper configured anew by each invocation that wraps
run_repr_reconfigures ==
    /\ pc = "looked_up"
    /\ LET text == repr(enum)
       IN  IF Len(text) > Threshold
           THEN /\ shortrepr' = Str(Abbreviate(text))
                /\ fullrepr' = List(wrap(wrapper, text))
                /\ wrapper' = [wrapper EXCEPT !.initial_indent = wrapper.subsequent_indent]
           ELSE /\ shortrepr' = Str(text)
                /\ fullrepr' = None
                /\ UNCHANGED wrapper
    /\ steps' = Append(steps, "repr")
    /\ pc' = "computed"
    /\ UNCHANGED <<arguments, options, content, name, module, enum, rendered,
                   rst_text, result, returned, raised, imports, earlier, sys_modules>>

\* lines 65-71: the short and the full representation
run_repr ==
    /\ pc = "looked_up"
    /\ LET text == repr(enum)
       IN  IF Len(text) > Threshold
           THEN /\ shortrepr' = Str(Abbreviate(text))
                /\ fullrepr' = List(wrap(wrapper, text))
           ELSE /\ shortrepr' = Str(text)
                /\ fullrepr' = None
    /\ steps' = Append(steps, "repr")
    /\ pc' = "computed"
    /\ UNCHANGED <<arguments, options, content, wrapper, name, module, enum, rendered,
                   rst_text, result, returned, raised, imports, earlier, sys_modules>>

\* ENUM_DETAIL.render(**kw): the text of the template with the values put in, as
\* its lines
ENUM_DETAIL_render(kw) ==
    <<  <<"name", kw.name>>, <<"module", kw.module>>, <<"shortrepr", kw.shortrepr.val>> >>
    \o [i \in 1..Len(kw.content) |-> <<"content", kw.content[i]>>]
    \o (IF kw.fullrepr.kind = "list"
        THEN [i \in 1..Len(kw.fullrepr.val) |-> <<"fullrepr", kw.fullrepr.val[i]>>]
        ELSE <<>>)

\* name and module given to each other's keyword
run_render_swapped ==
    /\ pc = "computed"
    /\ LET kw == [name |-> options["module"], module |-> name, content |-> content,
                  shortrepr |-> shortrepr, fullrepr |-> fullrepr]
       IN  /\ rendered' = kw
           /\ rst_text' = ENUM_DETAIL_render(kw)
    /\ steps' = Append(steps, "render")
    /\ pc' = "rendered"
    /\ UNCHANGED <<arguments, options, content, wrapper, name, module, enum, fullrepr,
                   shortrepr, result, returned, raised, imports, earlier, sys_modules>>

\* lines 73-79: the template is rendered
run_render ==
    /\ pc = "computed"
    /\ LET kw == [name |-> name, module |-> options["module"], content |-> content,
                  shortrepr |-> shortrepr, fullrepr |-> fullrepr]
       IN  /\ rendered' = kw
           /\ rst_text' = ENUM_DETAIL_render(kw)
    /\ steps' = Append(steps, "render")
    /\ pc' = "rendered"
    /\ UNCHANGED <<arguments, options, content, wrapper, name, module, enum, fullrepr,
                   shortrepr, result, returned, raised, imports, earlier, sys_modules>>

\* lines 81-83: one turn of the loop over rst_text.split("\n")
run_append ==
    /\ pc = "rendered"
    /\ Len(result) < Len(rst_text)
    /\ result' = Append(result, [line |-> rst_text[Len(result) + 1],
                                 source |-> "<bokeh-prop>"])
    /\ UNCHANGED <<pc, arguments, options, content, wrapper, name, module, enum,
                   fullrepr, shortrepr, rendered, rst_text, returned, raised, steps,
                   imports, earlier, sys_modules>>

\* nested_parse_with_titles(self.state, result, node); node.children: the nodes
\* the parser made of the lines, kept as the lines they were made of
nested_parse_with_titles(lines) ==
    [kind |-> "nodes", val |-> [i \in 1..Len(lines) |-> lines[i].line]]

\* the parse inside the loop: after any line, not after the last
run_parse_in_loop ==
    /\ pc = "rendered"
    /\ result # <<>>
    /\ returned' = nested_parse_with_titles(result)
    /\ steps' = Append(steps, "parse")
    /\ pc' = "returned"
    /\ UNCHANGED <<arguments, options, content, wrapper, name, module, enum, fullrepr,
                   shortrepr, rendered, rst_text, result, raised, imports, earlier,
                   sys_modules>>

\* lines 84-87: the lines are parsed and the nodes returned
run_parse ==
    /\ pc = "rendered"
    /\ Len(result) = Len(rst_text)
    /\ returned' = nested_parse_with_titles(result)
    /\ steps' = Append(steps, "parse")
    /\ pc' = "returned"
    /\ UNCHANGED <<arguments, options, content, wrapper, name, module, enum, fullrepr,
                   shortrepr, rendered, rst_text, result, raised, imports, earlier,
                   sys_modules>>

\* what an invocation that returned leaves to compare later ones with
Remembered ==
    [arguments |-> arguments, options |-> options, content |-> content,
     enum |-> enum, rendered |-> rendered]

\* run() has ended; the build goes on to the next directive.  The history keeps
\* this invocation or the one it held.
Finish ==
    /\ pc \in {"returned", "raised"}
    /\ pc' = "idle"
    /\ \/ pc = "returned" /\ earlier' = Remembered
       \/ earlier' = earlier
    /\ UNCHANGED <<arguments, options, content, wrapper, name, module, enum, fullrepr,
                   shortrepr, rendered, rst_text, result, returned, raised, steps,
                   imports, sys_modules>>

Next ==
    \/ Invoke
    \/ run_import
    \/ run_getattr
    \/ run_repr
    \/ run_render
    \/ run_append
    \/ run_parse
    \/ Finish

Spec == Init /\ [][Next]_vars

(***************************************************************************)
(* One invocation of run() in a build whose module holds an attribute with *)
(* any representation of a family: lengths about the threshold and up to   *)
(* MaxLen, words shorter and longer than a line, runs of whitespace at     *)
(* the start, inside and at the end.                                       *)
(***************************************************************************)
FamilyLens == {Threshold, Threshold + 1, Threshold + 2, MaxLen}
FamilyLeads == {0, 3, 100}
FamilyWords == {1, 7, 65, 66, 67, 69, 70, 71, MaxLen}
FamilyGaps == {1, 2, 120}
Family ==
    {Text(n, l, w, g) : n \in FamilyLens, l \in FamilyLeads, w \in FamilyWords,
                        g \in FamilyGaps}
    \cup {Text(n, n, 1, 1) : n \in FamilyLens}
    \cup {EnumRepr(3, 1), EnumRepr(13, 11), EnumRepr(10, 15), EnumRepr(21, 7)}

InitFamily ==
    /\ pc = "run"
    /\ arguments = <<"baz">>
    /\ options = [o \in {"module"} |-> "bokeh.enums"]
    /\ content \in Contents
    /\ wrapper = TextWrapper
    /\ name = Unbound
    /\ module = Unbound
    /\ enum = None
    /\ fullrepr = None
    /\ shortrepr = None
    /\ rendered = NotRendered
    /\ rst_text = <<>>
    /\ result = <<>>
    /\ returned = None
    /\ raised = NoException
    /\ steps = <<>>
    /\ imports = 0
    /\ earlier = NoEarlier
    /\ \E t \in Family : sys_modules = ("bokeh.enums" :> ("baz" :> Object(t)))

NextRun ==
    \/ run_import
    \/ run_getattr
    \/ run_repr
    \/ run_render
    \/ run_append
    \/ run_parse

SpecFamily == InitFamily /\ [][NextRun]_vars

(***************************************************************************)
(* Properties.                                                             *)
(***************************************************************************)
\* the current invocation (or, between invocations, the last one) has done the step
Did(step) == \E i \in 1..Len(steps) : steps[i] = step

\* text without its whitespace
NonWs(text) == SelectSeq(text, LAMBDA c : ~IsSpace(c))

\* the short form is the first 40 characters, " .... ", and the last 40 characters
IsHeadTail(short, text) ==
    /\ Len(short) = HeadLen + 6 + TailLen
    /\ \A i \in 1..HeadLen : short[i] = text[i]
    /\ SubSeq(short, HeadLen + 1, HeadLen + 6) = <<" ", ".", ".", ".", ".", " ">>
    /\ \A i \in 1..TailLen : short[HeadLen + 6 + i] = text[Len(text) - TailLen + i]

\* C1 as stated: a representation of at most 180 characters is handed to the
\* template verbatim as the short form and as the full form.
C1_VerbatimBoth ==
    (Did("render") /\ Len(repr(enum)) <= Threshold)
        => /\ rendered.shortrepr = Str(repr(enum))
           /\ rendered.fullrepr = Str(repr(enum))

\* C1 amended: a representation of at most 180 characters (180 included) is left
\* untouched as the short form, and the full form handed to the template is None.
C1_VerbatimShortNoFull ==
    (Did("repr") /\ Len(repr(enum)) <= Threshold)
        => /\ shortrepr = Str(repr(enum))
           /\ fullrepr = None
           /\ Did("render") => /\ rendered.shortrepr = Str(repr(enum))
                               /\ rendered.fullrepr = None

C1_Witness ==
    /\ Did("render")
    /\ Len(repr(enum)) = Threshold
    /\ rendered.shortrepr = Str(repr(enum))

\* C2: a representation of more than 180 characters gives the short form of its
\* first 40 characters, " .... " and its last 40 characters, and the full form is
\* wrapper.wrap of it: a list, neither the text itself nor None; the template is
\* handed both.
C2_AbbreviatedAndWrapped ==
    (Did("repr") /\ Len(repr(enum)) > Threshold)
        => /\ shortrepr.kind = "str"
           /\ IsHeadTail(shortrepr.val, repr(enum))
           /\ fullrepr = List(wrap(TextWrapper, repr(enum)))
           /\ fullrepr # Str(repr(enum))
           /\ fullrepr # None
           /\ Did("render") => /\ rendered.shortrepr = shortrepr
                               /\ rendered.fullrepr = fullrepr

C2_Witness ==
    /\ Did("render")
    /\ Len(repr(enum)) = Threshold + 1
    /\ rendered.fullrepr.kind = "list"
    /\ Len(rendered.fullrepr.val) >= 3

\* the import of the 'module' option's module ends in ImportError
FailsImport ==
    /\ "module" \in DOMAIN options
    /\ import_module(sys_modules, options["module"]) = "ImportError"

\* C3: when the import fails with ImportError, run() ends in a SphinxError whose
\* message holds the attribute name and the module name, and nothing else is done:
\* no lookup, no rendering, no parse, no nodes.
C3_ImportErrorIsSphinxError ==
    (Did("import") /\ FailsImport)
        => /\ pc \in {"raised", "idle"}
           /\ raised.class = "SphinxError"
           /\ \E i \in 1..Len(raised.message) :
                 raised.message[i] = <<"'", arguments[1], "'">>
           /\ \E i \in 1..Len(raised.message) :
                 raised.message[i] = <<"'", options["module"], "'">>
           /\ steps = <<"import">>
           /\ enum = None
           /\ shortrepr = None
           /\ rendered = NotRendered
           /\ rst_text = <<>>
           /\ result = <<>>
           /\ returned = None

C3_Witness ==
    /\ pc = "raised"
    /\ FailsImport
    /\ raised.class = "SphinxError"
    /\ arguments[1] = "palette"

\* C4 as stated: whatever the argument and the options, the module option absent
\* included, run() either returns nodes or ends in the SphinxError of a failed
\* import, and the import is attempted exactly once.
C4_SingleErrorPath ==
    Did("import")
        => /\ imports = 1
           /\ pc = "raised" => (raised.class = "SphinxError" /\ FailsImport)

\* C5: what the template is given as content, name and module is self.content,
\* the first argument and the 'module' option, as the directive received them.
C5_PassedThrough ==
    Did("render")
        => /\ rendered.content = content
           /\ rendered.name = arguments[1]
           /\ rendered.module = options["module"]

C5_Witness ==
    /\ Did("render")
    /\ Len(repr(enum)) > Threshold
    /\ Len(content) >= 2
    /\ content[1] # content[2]
    /\ rendered.content = content

\* s is t or a beginning of t
IsPrefix(s, t) == Len(s) <= Len(t) /\ SubSeq(t, 1, Len(s)) = s

\* C6: the steps of an invocation are performed at most once each and in the one
\* order import, lookup, representations, rendering, parse; the lines reach the
\* parser in the order of the rendered text; an invocation that returns has done
\* every step and parsed every line.
C6_LinearSequence ==
    /\ IsPrefix(steps, AllSteps)
    /\ Len(result) <= Len(rst_text)
    /\ \A i \in 1..Len(result) :
          result[i].line = rst_text[i] /\ result[i].source = "<bokeh-prop>"
    /\ result # <<>> => Did("render")
    /\ pc = "imported" => steps = SubSeq(AllSteps, 1, 1)
    /\ pc = "looked_up" => steps = SubSeq(AllSteps, 1, 2)
    /\ pc = "computed" => steps = SubSeq(AllSteps, 1, 3)
    /\ pc = "rendered" => steps = SubSeq(AllSteps, 1, 4)
    /\ pc = "returned" => /\ steps = AllSteps
                          /\ Len(result) = Len(rst_text)
                          /\ returned.kind = "nodes"
                          /\ returned.val = rst_text
    /\ returned # None => Did("parse")

C6_Witness ==
    /\ pc = "returned"
    /\ steps = AllSteps
    /\ Len(result) >= 6

\* the current invocation was given what the remembered one was given
SameInputs ==
    /\ earlier # NoEarlier
    /\ earlier.arguments = arguments
    /\ earlier.options = options
    /\ earlier.content = content

\* C7: an invocation given the argument, options and content of an earlier one
\* looks up the same attribute and hands the template the same values; the
\* module-level wrapper and the modules' objects are as they were.
C7_NoSharedState ==
    /\ wrapper = TextWrapper
    /\ sys_modules = Installed
    /\ (SameInputs /\ Did("getattr")) => enum = earlier.enum
    /\ (SameInputs /\ Did("render")) => rendered = earlier.rendered

C7_Witness ==
    /\ SameInputs
    /\ pc = "rendered"
    /\ Len(repr(enum)) > Threshold
    /\ rendered = earlier.rendered
    /\ rendered.fullrepr.val # <<>>

\* C8 as stated: the full form is None exactly when the representation has at most
\* 180 characters, and a non-empty list of lines exactly when it has more.
C8_FullListNonEmpty ==
    Did("repr")
        => /\ fullrepr = None <=> Len(repr(enum)) <= Threshold
           /\ (fullrepr.kind = "list" /\ fullrepr.val # <<>>)
                 <=> Len(repr(enum)) > Threshold

\* C8 amended: the full form is None exactly when the representation has at most
\* 180 characters and a list of wrapped lines exactly when it has more, a list
\* with a line in it when the representation holds a character that is not
\* whitespace; it is not None exactly when the short form differs from the
\* representation, and then the short form has 86 characters, fewer than the
\* representation, its head and tail taken from parts that do not overlap.
C8_FullListWhenLarge ==
    Did("repr")
        => LET text == repr(enum)
           IN  /\ fullrepr = None <=> Len(text) <= Threshold
               /\ fullrepr.kind = "list" <=> Len(text) > Threshold
               /\ (Len(text) > Threshold /\ ~IsBlank(text)) => fullrepr.val # <<>>
               /\ fullrepr # None <=> shortrepr # Str(text)
               /\ fullrepr # None
                     => /\ Len(shortrepr.val) = 86
                        /\ Len(shortrepr.val) < Len(text)
                        /\ HeadLen < Len(text) - TailLen + 1
                        /\ IsHeadTail(shortrepr.val, text)
               /\ Did("render") => rendered.fullrepr = fullrepr

C8_Witness ==
    /\ Did("render")
    /\ Len(repr(enum)) = Threshold + 1
    /\ ~IsBlank(repr(enum))
    /\ rendered.fullrepr.kind = "list"
    /\ Len(shortrepr.val) = 86

\* the module is imported and holds no attribute of the name given
MissingAttr ==
    /\ "module" \in DOMAIN options
    /\ import_module(sys_modules, options["module"]) = "ok"
    /\ arguments[1] \notin DOMAIN sys_modules[options["module"]]

\* C9: when the module is imported and has no attribute of the name, nothing is
\* raised: the lookup gives None, the representation is "None", of 4 characters,
\* used unabbreviated as the short form, and the invocation goes on through the
\* rendering and the parse and returns nodes.
C9_MissingAttributeIsNone ==
    (Did("import") /\ MissingAttr)
        => /\ pc # "raised"
           /\ raised = NoException
           /\ Did("getattr") => enum = None
           /\ Did("repr") => /\ shortrepr = Str(<<"N", "o", "n", "e">>)
                             /\ Len(shortrepr.val) = 4
                             /\ fullrepr = None
           /\ Did("render") => rendered.shortrepr = Str(<<"N", "o", "n", "e">>)
           /\ pc \in {"imported", "looked_up", "computed", "rendered"}
                 => ENABLED NextRun
           /\ pc = "returned" => (returned.kind = "nodes" /\ steps = AllSteps)

C9_Witness ==
    /\ pc = "returned"
    /\ MissingAttr
    /\ arguments[1] = "nope"
    /\ returned.kind = "nodes"
    /\ enum = None

\* the wrapped lines without the indent the wrapper put before the second and
\* later ones
Bodies(lines) ==
    [i \in 1..Len(lines) |-> IF i = 1 THEN lines[i] ELSE Suffix(lines[i], 4)]

RECURSIVE Covers(_, _, _)
\* the bodies are pieces of the text from position p on, in order, one after the
\* other, and what lies between them and after them is whitespace
Covers(text, p, bodies) ==
    IF bodies = <<>> THEN IsBlank(SubSeq(text, p, Len(text)))
    ELSE LET b == Head(bodies)
         IN  \E q \in p..(Len(text) + 1) :
                /\ IsBlank(SubSeq(text, p, q - 1))
                /\ q + Len(b) - 1 <= Len(text)
                /\ SubSeq(text, q, q + Len(b) - 1) = b
                /\ Covers(text, q + Len(b), Tail(bodies))

\* what C10 says of every wrapped full form but its number of lines
WellWrapped(text, lines) ==
    /\ \A i \in 1..Len(lines) : Len(lines[i]) <= 70
    /\ \A i \in 2..Len(lines) :
          /\ SubSeq(lines[i], 1, 4) = <<" ", " ", " ", " ">>
          /\ Len(lines[i]) > 4
          /\ ~IsSpace(lines[i][5])
    /\ Covers(text, 1, Bodies(lines))
    /\ NonWs(Join(Bodies(lines))) = NonWs(text)

====
